---- MODULE Spec2Model ----
(***************************************************************************)
(* Networked variant-chess client (src/src/main.ts): the piece rule table  *)
(* on the 8x10 board, the ChessBoard grid, the NetworkedChessGame          *)
(* controller and the room handlers that feed it.                          *)
(***************************************************************************)
EXTENDS Integers, Sequences, FiniteSets, TLC

VARIABLES
    room,                \* TRUE once client.joinOrCreate has resolved
    playerSessionId,     \* "" until the room is joined
    playerColor,         \* "unassigned" (undefined), "white", "black", "spectator"
    currentScene,        \* TRUE once Phaser's create() has run
    board,               \* ChessBoard.pieces: occupied cell -> piece (a cell outside the domain holds null)
    currentPlayer,       \* NetworkedChessGame.currentPlayer
    gameStatus,          \* NetworkedChessGame.gameStatus
    selectedPiece,       \* NetworkedChessGame.selectedPiece
    opponentSelectionHighlight, \* NoHighlight or the highlighted square
    roomState,           \* the snapshot most recently delivered (room.state)
    sent,                \* the messages room.send emitted in the last step
    lastCall,            \* the last operation: its name, arguments, result
    validMoves,          \* the last result of getValidMovesForSelected
    pieceSprites,        \* cell of each piece sprite -> whether it is tinted
    highlightSquares     \* the squares of the move highlights, as pushed

vars == <<room, playerSessionId, playerColor, currentScene, board,
          currentPlayer, gameStatus, selectedPiece,
          opponentSelectionHighlight, roomState, sent, lastCall, validMoves,
          pieceSprites, highlightSquares>>

---------------------------------------------------------------------------
(* Program constants.                                                      *)

Rows == 8
Cols == 10
RayLimit == 10
WhiteStartingRow == 6
BlackStartingRow == 1

Colors == {"white", "black"}
KnownTypes == {"pawn", "rook", "knight", "bishop", "queen", "king", "mann"}

Cells == (0 .. Rows - 1) \X (0 .. Cols - 1)

\* null
NoPiece == [type |-> "none"]

Pos(r, c) == [row |-> r, col |-> c]

\* new Pawn(color, row, col) etc.: hasMoved starts FALSE
NewPiece(type, color, row, col) == [type |-> type, color |-> color, row |-> row, col |-> col, hasMoved |-> FALSE]

isOpponent(this, other) == this.color # other.color

---------------------------------------------------------------------------
(* ChessBoard.                                                             *)

\* Array(8).fill(null).map(() => Array(10).fill(null)): no cell holds a piece
EmptyBoard == [cell \in {} |-> NoPiece]

isValidPosition(pos) == pos.row >= 0 /\ pos.row < Rows /\ pos.col >= 0 /\ pos.col < Cols

\* pieces[row][col], null where nothing was placed
CellAt(b, row, col) == IF <<row, col>> \in DOMAIN b THEN b[<<row, col>>] ELSE NoPiece

getPiece(b, row, col) == IF ~isValidPosition(Pos(row, col)) THEN NoPiece ELSE CellAt(b, row, col)

\* variant: the position is not checked, an index past the grid wraps into
\* it and the piece keeps the coordinates it was built with
setPiece_Wrapping(b, row, col, piece) == (<<row % Rows, col % Cols>> :> piece) @@ b

\* setPiece with a non-null piece: stamps the piece's row/col; ignores an
\* off-board position
setPiece(b, row, col, piece) ==
    IF isValidPosition(Pos(row, col))
    THEN (<<row, col>> :> [piece EXCEPT !.row = row, !.col = col]) @@ b
    ELSE b

\* variant: a kind that is not known is built as a pawn
createPieceFromType_DefaultPawn(type, color, row, col) == NewPiece(IF type \in KnownTypes THEN type ELSE "pawn", color, row, col)

createPieceFromType(type, color, row, col) == IF type \in KnownTypes THEN NewPiece(type, color, row, col) ELSE NoPiece

\* one iteration of the loop of updateFromServerState
PlaceServerPiece(b, serverPiece) ==
    LET piece == createPieceFromType(serverPiece.type, serverPiece.color, serverPiece.row, serverPiece.col)
    IN  IF piece # NoPiece
        THEN setPiece(b, serverPiece.row, serverPiece.col, [piece EXCEPT !.hasMoved = serverPiece.hasMoved])
        ELSE b

RECURSIVE PlaceFrom(_, _, _)
PlaceFrom(b, serverPieces, i) ==
    IF i > Len(serverPieces) THEN b
    ELSE PlaceFrom(PlaceServerPiece(b, serverPieces[i]), serverPieces, i + 1)

\* variant: the grid is not cleared first
updateFromServerState_NoClear(prior, serverPieces) == PlaceFrom(prior, serverPieces, 1)

\* prior is this.pieces before the call: the code discards it
updateFromServerState(prior, serverPieces) == PlaceFrom(EmptyBoard, serverPieces, 1)

RECURSIVE CollectPieces(_, _)
CollectPieces(b, k) ==
    IF k >= Rows * Cols THEN <<>>
    ELSE LET piece == CellAt(b, k \div Cols, k % Cols)
         IN  (IF piece # NoPiece THEN <<piece>> ELSE <<>>) \o CollectPieces(b, k + 1)

getAllPieces(b) == CollectPieces(b, 0)

---------------------------------------------------------------------------
(* Piece rule table: getValidMoves of each class, as the ordered list the  *)
(* code builds.                                                            *)

RECURSIVE Concat(_)
Concat(seqs) == IF seqs = <<>> THEN <<>> ELSE Head(seqs) \o Concat(Tail(seqs))

Range(s) == {s[i] : i \in DOMAIN s}

\* variant: the two-square push is offered to an unmoved pawn, wherever it stands
PawnForwardMoves_MovedFlag(this, b) ==
    LET direction == IF this.color = "white" THEN -1 ELSE 1
        oneForward == Pos(this.row + direction, this.col)
        twoForward == Pos(this.row + 2 * direction, this.col)
    IN  IF isValidPosition(oneForward) /\ getPiece(b, oneForward.row, oneForward.col) = NoPiece
        THEN <<oneForward>> \o
             (IF ~this.hasMoved
                 /\ isValidPosition(twoForward)
                 /\ getPiece(b, twoForward.row, twoForward.col) = NoPiece
              THEN <<twoForward>> ELSE <<>>)
        ELSE <<>>

\* variant: the square ahead is offered whatever stands on it
PawnForwardMoves_OntoPieces(this, b) ==
    LET direction == IF this.color = "white" THEN -1 ELSE 1
        oneForward == Pos(this.row + direction, this.col)
    IN  IF isValidPosition(oneForward) THEN <<oneForward>> ELSE <<>>

PawnForwardMoves(this, b) ==
    LET direction == IF this.color = "white" THEN -1 ELSE 1
        startingRow == IF this.color = "white" THEN WhiteStartingRow ELSE BlackStartingRow
        oneForward == Pos(this.row + direction, this.col)
        twoForward == Pos(this.row + 2 * direction, this.col)
    IN  IF isValidPosition(oneForward) /\ getPiece(b, oneForward.row, oneForward.col) = NoPiece
        THEN <<oneForward>> \o
             (IF this.row = startingRow
                 /\ isValidPosition(twoForward)
                 /\ getPiece(b, twoForward.row, twoForward.col) = NoPiece
              THEN <<twoForward>> ELSE <<>>)
        ELSE <<>>

PawnCapture(this, b, capturePos) ==
    IF isValidPosition(capturePos)
    THEN LET piece == getPiece(b, capturePos.row, capturePos.col)
         IN  IF piece # NoPiece /\ isOpponent(this, piece) THEN <<capturePos>> ELSE <<>>
    ELSE <<>>

PawnGetValidMoves(this, b) ==
    LET direction == IF this.color = "white" THEN -1 ELSE 1
        captureLeft == Pos(this.row + direction, this.col - 1)
        captureRight == Pos(this.row + direction, this.col + 1)
    IN  PawnForwardMoves(this, b) \o PawnCapture(this, b, captureLeft) \o PawnCapture(this, b, captureRight)

\* variant: the ray is at most seven squares long, as on a board of 8 columns
RECURSIVE RayMoves_ShortRay(_, _, _, _)
RayMoves_ShortRay(this, b, dir, i) ==
    IF ~(i < 8) THEN <<>>
    ELSE LET newPos == Pos(this.row + dir.row * i, this.col + dir.col * i)
         IN  IF ~isValidPosition(newPos) THEN <<>>
             ELSE LET piece == getPiece(b, newPos.row, newPos.col)
                  IN  IF piece = NoPiece THEN <<newPos>> \o RayMoves_ShortRay(this, b, dir, i + 1)
                      ELSE IF isOpponent(this, piece) THEN <<newPos>> ELSE <<>>

\* the inner loop of Rook/Bishop.getValidMoves from step i on
RECURSIVE RayMoves(_, _, _, _)
RayMoves(this, b, dir, i) ==
    IF ~(i < RayLimit) THEN <<>>
    ELSE LET newPos == Pos(this.row + dir.row * i, this.col + dir.col * i)
         IN  IF ~isValidPosition(newPos) THEN <<>>
             ELSE LET piece == getPiece(b, newPos.row, newPos.col)
                  IN  IF piece = NoPiece THEN <<newPos>> \o RayMoves(this, b, dir, i + 1)
                      ELSE IF isOpponent(this, piece) THEN <<newPos>> ELSE <<>>

RookDirections == <<Pos(0, 1), Pos(0, -1), Pos(1, 0), Pos(-1, 0)>>
BishopDirections == <<Pos(1, 1), Pos(1, -1), Pos(-1, 1), Pos(-1, -1)>>

RookGetValidMoves(this, b) == Concat([k \in 1 .. 4 |-> RayMoves(this, b, RookDirections[k], 1)])

BishopGetValidMoves(this, b) == Concat([k \in 1 .. 4 |-> RayMoves(this, b, BishopDirections[k], 1)])

\* variant: the square is not tested against the board's bounds
StepMove_NoBounds(this, b, move) ==
    LET piece == getPiece(b, move.row, move.col)
    IN  IF piece = NoPiece \/ isOpponent(this, piece) THEN <<move>> ELSE <<>>

\* if on-board and empty or opposing, the square is offered
StepMove(this, b, move) ==
    IF isValidPosition(move)
    THEN LET piece == getPiece(b, move.row, move.col)
         IN  IF piece = NoPiece \/ isOpponent(this, piece) THEN <<move>> ELSE <<>>
    ELSE <<>>

KnightOffsets == <<Pos(2, 1), Pos(2, -1), Pos(-2, 1), Pos(-2, -1), Pos(1, 2), Pos(1, -2), Pos(-1, 2), Pos(-1, -2)>>

\* variant: a piece standing next to the knight on the long side of the jump blocks it
KnightGetValidMoves_Blockable(this, b) ==
    LET leg(x) == IF x = 2 THEN 1 ELSE IF x = -2 THEN -1 ELSE 0
    IN  Concat([k \in 1 .. 8 |->
            IF getPiece(b, this.row + leg(KnightOffsets[k].row), this.col + leg(KnightOffsets[k].col)) = NoPiece
            THEN StepMove(this, b, Pos(this.row + KnightOffsets[k].row, this.col + KnightOffsets[k].col))
            ELSE <<>>])

KnightGetValidMoves(this, b) == Concat([k \in 1 .. 8 |-> StepMove(this, b, Pos(this.row + KnightOffsets[k].row, this.col + KnightOffsets[k].col))])

\* variant: the queen moves as a rook only
QueenGetValidMoves_RookOnly(this, b) == RookGetValidMoves(NewPiece("rook", this.color, this.row, this.col), b)

QueenGetValidMoves(this, b) ==
    LET rook == NewPiece("rook", this.color, this.row, this.col)
        bishop == NewPiece("bishop", this.color, this.row, this.col)
    IN  RookGetValidMoves(rook, b) \o BishopGetValidMoves(bishop, b)

KingDirections == <<Pos(-1, -1), Pos(-1, 0), Pos(-1, 1), Pos(0, -1), Pos(0, 1), Pos(1, -1), Pos(1, 0), Pos(1, 1)>>
MannDirections == <<Pos(-1, -1), Pos(-1, 0), Pos(-1, 1), Pos(0, -1), Pos(0, 1), Pos(1, -1), Pos(1, 0), Pos(1, 1)>>

KingGetValidMoves(this, b) == Concat([k \in 1 .. 8 |-> StepMove(this, b, Pos(this.row + KingDirections[k].row, this.col + KingDirections[k].col))])

\* variant: the mann steps along rows and columns only
MannGetValidMoves_Orthogonal(this, b) == Concat([k \in 1 .. 4 |-> StepMove(this, b, Pos(this.row + MannDirections[2 * k - (k \div 3)].row, this.col + MannDirections[2 * k - (k \div 3)].col))])

MannGetValidMoves(this, b) == Concat([k \in 1 .. 8 |-> StepMove(this, b, Pos(this.row + MannDirections[k].row, this.col + MannDirections[k].col))])

\* virtual dispatch of piece.getValidMoves(board)
getValidMoves(this, b) ==
    CASE this.type = "pawn" -> PawnGetValidMoves(this, b)
      [] this.type = "rook" -> RookGetValidMoves(this, b)
      [] this.type = "knight" -> KnightGetValidMoves(this, b)
      [] this.type = "bishop" -> BishopGetValidMoves(this, b)
      [] this.type = "queen" -> QueenGetValidMoves(this, b)
      [] this.type = "king" -> KingGetValidMoves(this, b)
      [] this.type = "mann" -> MannGetValidMoves(this, b)

---------------------------------------------------------------------------
(* NetworkedChessGame.                                                     *)

\* the controller's four private fields
Controller == [board |-> board, currentPlayer |-> currentPlayer, gameStatus |-> gameStatus, selectedPiece |-> selectedPiece]

\* new NetworkedChessGame()
NewController == [board |-> EmptyBoard, currentPlayer |-> "white", gameStatus |-> "waiting", selectedPiece |-> NoPiece]

\* variant: the selection is taken whichever session the snapshot names
updateFromServer_IgnoreSession(ctl, roomSt, sessionId) ==
    LET b == updateFromServerState(ctl.board, roomSt.pieces)
    IN  [board |-> b,
         currentPlayer |-> roomSt.currentTurn,
         gameStatus |-> roomSt.gameStatus,
         selectedPiece |-> getPiece(b, roomSt.selectedRow, roomSt.selectedCol)]

\* variant: the selection is looked up before the board is replaced
updateFromServer_StaleSelection(ctl, roomSt, sessionId) ==
    LET b == updateFromServerState(ctl.board, roomSt.pieces)
    IN  [board |-> b,
         currentPlayer |-> roomSt.currentTurn,
         gameStatus |-> roomSt.gameStatus,
         selectedPiece |-> IF roomSt.selectedPiecePlayer = sessionId
                           THEN getPiece(ctl.board, roomSt.selectedRow, roomSt.selectedCol)
                           ELSE NoPiece]

updateFromServer(ctl, roomSt, sessionId) ==
    LET b == updateFromServerState(ctl.board, roomSt.pieces)
    IN  [board |-> b,
         currentPlayer |-> roomSt.currentTurn,
         gameStatus |-> roomSt.gameStatus,
         selectedPiece |-> IF roomSt.selectedPiecePlayer = sessionId
                           THEN getPiece(b, roomSt.selectedRow, roomSt.selectedCol)
                           ELSE NoPiece]

\* the value selectPiece returns
selectPiece(ctl, color, row, col) ==
    LET piece == getPiece(ctl.board, row, col)
    IN  ~(piece = NoPiece \/ piece.color # color \/ ctl.currentPlayer # color)

getValidMovesForSelected(ctl) == IF ctl.selectedPiece = NoPiece THEN <<>> ELSE getValidMoves(ctl.selectedPiece, ctl.board)

\* variant: the destination is not looked up among the valid moves
makeMove_NoValidation(ctl, color, toRow, toCol) == ~(ctl.selectedPiece = NoPiece \/ color = "spectator")

\* the value makeMove returns
makeMove(ctl, color, toRow, toCol) ==
    IF ctl.selectedPiece = NoPiece \/ color = "spectator" THEN FALSE
    ELSE LET moves == getValidMovesForSelected(ctl)
         IN  \E k \in DOMAIN moves : moves[k].row = toRow /\ moves[k].col = toCol

\* variant: the status of the game is not looked at
canPlayerAct_IgnoreStatus(ctl, color) == color # "spectator" /\ ctl.currentPlayer = color

canPlayerAct(ctl, color) == color # "spectator" /\ ctl.currentPlayer = color /\ ctl.gameStatus = "playing"

\* variant: any role may restart
restartAllowed_AnyRole(hasRoom, color) == hasRoom

\* whether the restart button's handler sends
restartAllowed(hasRoom, color) == hasRoom /\ color # "spectator"

---------------------------------------------------------------------------
(* Presentation: the piece sprites and their tint.                         *)

\* pieceSprites before create() and after every sprite was destroyed
NoSprites == <<>>

\* one new, untinted sprite on the cell of every piece getAllPieces lists
\* (the occupied cells of the grid)
updatePieceSprites(b) == [cell \in DOMAIN b |-> FALSE]

\* the first loop of clearHighlights: sprite.clearTint() on every sprite
clearTints(sprites) == [cell \in DOMAIN sprites |-> FALSE]

highlightSelectedPiece(sprites, row, col) == IF <<row, col>> \in DOMAIN sprites THEN [sprites EXCEPT ![<<row, col>>] = TRUE] ELSE sprites

---------------------------------------------------------------------------
(* Inputs of the model.                                                    *)

MaxPieces == 2
MaxBlockers == 2

OwnSession == "s1"
SnapStatuses == {"waiting", "playing"}
Roles == {"white", "black", "spectator"}

\* a set of entries as a list, in some fixed order
RECURSIVE ListOf(_)
ListOf(set) == IF set = {} THEN <<>> ELSE LET e == CHOOSE x \in set : TRUE IN <<e>> \o ListOf(set \ {e})

\* entries a snapshot's piece list is drawn from
SnapEntries ==
    { [type |-> "pawn", color |-> "white", row |-> 6, col |-> 4, hasMoved |-> FALSE],
      [type |-> "pawn", color |-> "black", row |-> 5, col |-> 3, hasMoved |-> TRUE],
      [type |-> "rook", color |-> "white", row |-> 5, col |-> 4, hasMoved |-> TRUE] }

SnapPieceLists == {ListOf(set) : set \in {x \in SUBSET SnapEntries : Cardinality(x) <= MaxPieces}}

\* selectedPiecePlayer, selectedRow, selectedCol: this session on a square,
\* this session off the board, another session on a square
SnapSelections == {<<"s1", 6, 4>>, <<"s1", -1, -1>>, <<"s2", 6, 4>>}

Snapshots ==
    { [pieces |-> ps, currentTurn |-> t, gameStatus |-> st, selectedPiecePlayer |-> sel[1], selectedRow |-> sel[2], selectedCol |-> sel[3]] :
        ps \in SnapPieceLists, t \in Colors, st \in SnapStatuses, sel \in SnapSelections }

\* squares the intent calls are tried on
InputRows == {-1, 5, 6}
InputCols == {3, 4}

NoState == [pieces |-> <<>>, currentTurn |-> "none", gameStatus |-> "none", selectedPiecePlayer |-> "none", selectedRow |-> -1, selectedCol |-> -1]
NoHighlight == <<>>
NoCall == [op |-> "none"]

\* boards the rule table is tried on: one piece of any kind and color
\* anywhere, and up to MaxBlockers other pieces around it
\* (the moved-flag is tried both ways on pawns, the only kind it could matter to)
Subjects ==
    UNION { {[type |-> t, color |-> c, row |-> r, col |-> k, hasMoved |-> m] : c \in Colors, r \in 0 .. Rows - 1, k \in 0 .. Cols - 1, m \in (IF t = "pawn" THEN BOOLEAN ELSE {FALSE})} :
            t \in KnownTypes }

Forward(color) == IF color = "white" THEN -1 ELSE 1

\* <<rows ahead, columns right>> of the subject
BlockerOffsets == {<<1, 0>>, <<2, 0>>, <<1, -1>>, <<1, 1>>, <<0, 3>>, <<2, 1>>, <<3, 3>>}

Blocker(subject, offset, color) == [type |-> "pawn", color |-> color, row |-> subject.row + Forward(subject.color) * offset[1], col |-> subject.col + offset[2], hasMoved |-> TRUE]

BlockerSets(subject) ==
    UNION { { {Blocker(subject, o, colorOf[o]) : o \in offsets} : colorOf \in [offsets -> Colors] } :
            offsets \in {x \in SUBSET BlockerOffsets : Cardinality(x) <= MaxBlockers} }

---------------------------------------------------------------------------
(* The client.                                                             *)

Init ==
    /\ room = FALSE
    /\ playerSessionId = ""
    /\ playerColor = "unassigned"
    /\ currentScene = FALSE
    /\ board = NewController.board
    /\ currentPlayer = NewController.currentPlayer
    /\ gameStatus = NewController.gameStatus
    /\ selectedPiece = NewController.selectedPiece
    /\ opponentSelectionHighlight = NoHighlight
    /\ roomState = NoState
    /\ sent = <<>>
    /\ lastCall = NoCall
    /\ validMoves = <<>>
    /\ pieceSprites = NoSprites
    /\ highlightSquares = <<>>

ctlVars == <<board, currentPlayer, gameStatus, selectedPiece>>
uiVars == <<pieceSprites, highlightSquares>>
netVars == <<room, playerSessionId, playerColor>>

\* room = await client.joinOrCreate(...); playerSessionId = room.sessionId
JoinRoom ==
    /\ ~room /\ ~currentScene
    /\ room' = TRUE
    /\ playerSessionId' = OwnSession
    /\ sent' = <<>>
    /\ lastCall' = [op |-> "joinRoom"]
    /\ UNCHANGED <<playerColor, currentScene, ctlVars, opponentSelectionHighlight, roomState, validMoves, uiVars>>

\* connectToRoom().then(() => new Phaser.Game(config)): create() runs whether
\* or not the join succeeded
CreateScene ==
    /\ ~currentScene
    /\ currentScene' = TRUE
    /\ sent' = <<>>
    /\ pieceSprites' = updatePieceSprites(board)
    /\ lastCall' = [op |-> "create"]
    /\ UNCHANGED <<netVars, ctlVars, opponentSelectionHighlight, roomState, validMoves, highlightSquares>>

\* room.onMessage("gameState")
OnGameState(color) ==
    /\ room
    /\ playerColor' = color
    /\ sent' = <<>>
    /\ lastCall' = [op |-> "gameState"]
    /\ UNCHANGED <<room, playerSessionId, currentScene, ctlVars, opponentSelectionHighlight, roomState, validMoves, uiVars>>

\* room.onStateChange
OnStateChange(state) ==
    /\ room
    /\ \E ctl \in {updateFromServer(Controller, state, playerSessionId)} :
           /\ board' = ctl.board
           /\ currentPlayer' = ctl.currentPlayer
           /\ gameStatus' = ctl.gameStatus
           /\ selectedPiece' = ctl.selectedPiece
           /\ pieceSprites' = IF currentScene THEN clearTints(updatePieceSprites(ctl.board)) ELSE pieceSprites
    /\ highlightSquares' = IF currentScene THEN <<>> ELSE highlightSquares
    /\ opponentSelectionHighlight' = IF currentScene THEN NoHighlight ELSE opponentSelectionHighlight
    /\ roomState' = state
    /\ sent' = <<>>
    /\ lastCall' = [op |-> "updateFromServer"]
    /\ UNCHANGED <<netVars, currentScene, validMoves>>

\* variant: a successful select also sets the local selection
SelectPiece_Optimistic(row, col) ==
    LET ok == selectPiece(Controller, playerColor, row, col)
    IN  /\ sent' = IF ok /\ room THEN <<[type |-> "select", row |-> row, col |-> col]>> ELSE <<>>
        /\ lastCall' = [op |-> "selectPiece", row |-> row, col |-> col, result |-> ok]
        /\ selectedPiece' = IF ok THEN getPiece(board, row, col) ELSE selectedPiece
        /\ UNCHANGED <<netVars, currentScene, board, currentPlayer, gameStatus, opponentSelectionHighlight, roomState, validMoves, uiVars>>

SelectPiece(row, col) ==
    LET ok == selectPiece(Controller, playerColor, row, col)
    IN  /\ sent' = IF ok /\ room THEN <<[type |-> "select", row |-> row, col |-> col]>> ELSE <<>>
        /\ lastCall' = [op |-> "selectPiece", row |-> row, col |-> col, result |-> ok]
        /\ UNCHANGED <<netVars, currentScene, ctlVars, opponentSelectionHighlight, roomState, validMoves, uiVars>>

\* variant: the deselection is sent only while a piece is selected
DeselectPiece_IfSelected ==
    /\ sent' = IF room /\ selectedPiece # NoPiece THEN <<[type |-> "deselect"]>> ELSE <<>>
    /\ lastCall' = [op |-> "deselectPiece"]
    /\ UNCHANGED <<netVars, currentScene, ctlVars, opponentSelectionHighlight, roomState, validMoves, uiVars>>

DeselectPiece ==
    /\ sent' = IF room THEN <<[type |-> "deselect"]>> ELSE <<>>
    /\ lastCall' = [op |-> "deselectPiece"]
    /\ UNCHANGED <<netVars, currentScene, ctlVars, opponentSelectionHighlight, roomState, validMoves, uiVars>>

MakeMove(toRow, toCol) ==
    LET ok == makeMove(Controller, playerColor, toRow, toCol)
    IN  /\ sent' = IF ok /\ room
                   THEN <<[type |-> "move", fromRow |-> selectedPiece.row, fromCol |-> selectedPiece.col, toRow |-> toRow, toCol |-> toCol]>>
                   ELSE <<>>
        /\ lastCall' = [op |-> "makeMove", row |-> toRow, col |-> toCol, result |-> ok]
        /\ UNCHANGED <<netVars, currentScene, ctlVars, opponentSelectionHighlight, roomState, validMoves, uiVars>>

\* restartButton.on('pointerdown')
RestartClick ==
    /\ currentScene
    /\ sent' = IF restartAllowed(room, playerColor) THEN <<[type |-> "restart"]>> ELSE <<>>
    /\ lastCall' = [op |-> "restartClick"]
    /\ UNCHANGED <<netVars, currentScene, ctlVars, opponentSelectionHighlight, roomState, validMoves, uiVars>>

\* room.onMessage("pieceSelected")
OnPieceSelected(player, row, col) ==
    /\ room
    /\ opponentSelectionHighlight' = IF currentScene /\ player # playerColor THEN <<row, col>> ELSE opponentSelectionHighlight
    /\ sent' = <<>>
    /\ lastCall' = [op |-> "pieceSelected"]
    /\ UNCHANGED <<netVars, currentScene, ctlVars, roomState, validMoves, uiVars>>

\* room.onMessage("pieceDeselected")
OnPieceDeselected ==
    /\ room
    /\ opponentSelectionHighlight' = IF currentScene THEN NoHighlight ELSE opponentSelectionHighlight
    /\ sent' = <<>>
    /\ lastCall' = [op |-> "pieceDeselected"]
    /\ UNCHANGED <<netVars, currentScene, ctlVars, roomState, validMoves, uiVars>>

\* room.onMessage("error"): showError only writes the page's error element
OnError ==
    /\ room
    /\ sent' = <<>>
    /\ lastCall' = [op |-> "error"]
    /\ UNCHANGED <<netVars, currentScene, ctlVars, opponentSelectionHighlight, roomState, validMoves, uiVars>>

\* room.onMessage("gameRestarted")
OnGameRestarted ==
    /\ room
    /\ opponentSelectionHighlight' = IF currentScene THEN NoHighlight ELSE opponentSelectionHighlight
    /\ sent' = <<>>
    /\ pieceSprites' = IF currentScene THEN clearTints(pieceSprites) ELSE pieceSprites
    /\ highlightSquares' = IF currentScene THEN <<>> ELSE highlightSquares
    /\ lastCall' = [op |-> "gameRestarted"]
    /\ UNCHANGED <<netVars, currentScene, ctlVars, roomState, validMoves>>

\* the controller call handlePieceClick ends in, "return" where it makes none
pieceClickCall(ctl, color, row, col) ==
    LET piece == getPiece(ctl.board, row, col)
    IN  IF ~canPlayerAct(ctl, color) THEN "return"
        ELSE IF piece = NoPiece THEN "return"
        ELSE IF ctl.selectedPiece = NoPiece \/ ctl.selectedPiece.color # piece.color
             THEN IF ctl.selectedPiece # NoPiece THEN "makeMove" ELSE "selectPiece"
             ELSE IF ctl.selectedPiece = piece THEN "deselectPiece" ELSE "return"

\* the message a controller call sends on a room
intentOf(call, ctl, row, col) ==
    CASE call = "selectPiece" -> [type |-> "select", row |-> row, col |-> col]
      [] call = "makeMove" -> [type |-> "move", fromRow |-> ctl.selectedPiece.row, fromCol |-> ctl.selectedPiece.col, toRow |-> row, toCol |-> col]
      [] call = "deselectPiece" -> [type |-> "deselect"]

\* sprite.on('pointerdown') -> handlePieceClick(scene, piece.row, piece.col)
HandlePieceClick(row, col) ==
    /\ currentScene
    /\ <<row, col>> \in DOMAIN pieceSprites
    /\ \E call \in {pieceClickCall(Controller, playerColor, row, col)} :
       \E ok \in {CASE call = "selectPiece" -> selectPiece(Controller, playerColor, row, col)
                    [] call = "makeMove" -> makeMove(Controller, playerColor, row, col)
                    [] call = "deselectPiece" -> TRUE
                    [] OTHER -> FALSE} :
           /\ sent' = IF ok /\ room THEN <<intentOf(call, Controller, row, col)>> ELSE <<>>
           /\ lastCall' = [op |-> "handlePieceClick", row |-> row, col |-> col, call |-> call, result |-> ok]
           /\ IF call = "selectPiece" /\ ok
              THEN /\ pieceSprites' = highlightSelectedPiece(clearTints(pieceSprites), row, col)
                   /\ highlightSquares' = getValidMovesForSelected(Controller)
                   /\ opponentSelectionHighlight' = NoHighlight
              ELSE IF call = "deselectPiece"
              THEN /\ pieceSprites' = clearTints(pieceSprites)
                   /\ highlightSquares' = <<>>
                   /\ opponentSelectionHighlight' = NoHighlight
              ELSE UNCHANGED <<uiVars, opponentSelectionHighlight>>
    /\ UNCHANGED <<netVars, currentScene, ctlVars, roomState, validMoves>>

\* variant: the tile's handler does not ask canPlayerAct
HandleSquareClick_Unguarded(row, col) ==
    /\ currentScene
    /\ \E ok \in {getPiece(board, row, col) = NoPiece /\ makeMove(Controller, playerColor, row, col)} :
           /\ sent' = IF ok /\ room THEN <<intentOf("makeMove", Controller, row, col)>> ELSE <<>>
           /\ lastCall' = [op |-> "handleSquareClick", row |-> row, col |-> col, call |-> "makeMove", result |-> ok]
    /\ UNCHANGED <<netVars, currentScene, ctlVars, opponentSelectionHighlight, roomState, validMoves, uiVars>>

\* square.on('pointerdown') -> handleSquareClick(scene, row, col)
HandleSquareClick(row, col) ==
    /\ currentScene
    /\ \E call \in {IF canPlayerAct(Controller, playerColor) /\ getPiece(board, row, col) = NoPiece THEN "makeMove" ELSE "return"} :
       \E ok \in {call = "makeMove" /\ makeMove(Controller, playerColor, row, col)} :
           /\ sent' = IF ok /\ room THEN <<intentOf(call, Controller, row, col)>> ELSE <<>>
           /\ lastCall' = [op |-> "handleSquareClick", row |-> row, col |-> col, call |-> call, result |-> ok]
    /\ UNCHANGED <<netVars, currentScene, ctlVars, opponentSelectionHighlight, roomState, validMoves, uiVars>>

Next ==
    \/ JoinRoom
    \/ CreateScene
    \/ \E color \in Roles : OnGameState(color)
    \/ \E state \in Snapshots : OnStateChange(state)
    \/ \E row \in InputRows, col \in InputCols : SelectPiece(row, col)
    \/ DeselectPiece
    \/ \E row \in InputRows, col \in InputCols : MakeMove(row, col)
    \/ RestartClick
    \/ \E player \in Colors : OnPieceSelected(player, 5, 3)
    \/ OnPieceDeselected
    \/ OnError
    \/ OnGameRestarted

Spec == Init /\ [][Next]_vars

---------------------------------------------------------------------------
(* The client as its events drive it: the controller is called by the      *)
(* click handlers only.                                                    *)

\* tiles the empty-square clicks are tried on
ClickRows == {4, 5, 6}
ClickCols == {3, 4}

NextClicks ==
    \/ JoinRoom
    \/ CreateScene
    \/ \E color \in Roles : OnGameState(color)
    \/ \E state \in Snapshots : OnStateChange(state)
    \/ \E row \in 0 .. Rows - 1, col \in 0 .. Cols - 1 : HandlePieceClick(row, col)
    \/ \E row \in ClickRows, col \in ClickCols : HandleSquareClick(row, col)
    \/ RestartClick
    \/ \E player \in Colors : OnPieceSelected(player, 5, 3)
    \/ OnPieceDeselected
    \/ OnError
    \/ OnGameRestarted

SpecClicks == Init /\ [][NextClicks]_vars

---------------------------------------------------------------------------
(* The rule table on its own: the client has joined, holds the subject's   *)
(* color, and has reconciled a snapshot that selects the subject; the      *)
(* presentation then asks for the legal destinations.                      *)

InitMoves ==
    \E subject \in Subjects : \E blockers \in BlockerSets(subject) :
        \E state \in {[pieces |-> <<subject>> \o ListOf(blockers), currentTurn |-> subject.color, gameStatus |-> "playing",
                        selectedPiecePlayer |-> OwnSession, selectedRow |-> subject.row, selectedCol |-> subject.col]} :
        \E ctl \in {updateFromServer(NewController, state, OwnSession)} :
            /\ room = TRUE
            /\ playerSessionId = OwnSession
            /\ playerColor = subject.color
            /\ currentScene = TRUE
            /\ board = ctl.board
            /\ currentPlayer = ctl.currentPlayer
            /\ gameStatus = ctl.gameStatus
            /\ selectedPiece = ctl.selectedPiece
            /\ opponentSelectionHighlight = NoHighlight
            /\ roomState = state
            /\ sent = <<>>
            /\ lastCall = [op |-> "updateFromServer"]
            /\ validMoves = <<>>
            /\ pieceSprites = updatePieceSprites(ctl.board)
            /\ highlightSquares = <<>>

\* chessGame.getValidMovesForSelected(), as showValidMoves calls it
GetValidMovesForSelected ==
    /\ lastCall.op # "getValidMovesForSelected"
    /\ validMoves' = getValidMovesForSelected(Controller)
    /\ sent' = <<>>
    /\ lastCall' = [op |-> "getValidMovesForSelected"]
    /\ UNCHANGED <<netVars, currentScene, ctlVars, opponentSelectionHighlight, roomState, uiVars>>

NextMoves == GetValidMovesForSelected

SpecMoves == InitMoves /\ [][NextMoves]_vars

---------------------------------------------------------------------------
(* The board under snapshots of any shape: the client has joined as white  *)
(* and receives piece lists that may name a cell twice, a square off the   *)
(* board or a kind the client does not know.                               *)

MaxEntries == 3

\* two known kinds on one cell, a piece in the last column, a row and a
\* column off the board, an unknown kind on the cell of the first two
BoardEntries ==
    { [type |-> "pawn", color |-> "white", row |-> 6, col |-> 4, hasMoved |-> FALSE],
      [type |-> "queen", color |-> "black", row |-> 6, col |-> 4, hasMoved |-> TRUE],
      [type |-> "mann", color |-> "white", row |-> 7, col |-> 9, hasMoved |-> TRUE],
      [type |-> "rook", color |-> "black", row |-> 8, col |-> 3, hasMoved |-> FALSE],
      [type |-> "knight", color |-> "white", row |-> 3, col |-> -1, hasMoved |-> FALSE],
      [type |-> "amazon", color |-> "black", row |-> 6, col |-> 4, hasMoved |-> FALSE] }

BoardPieceLists == UNION {[1 .. n -> BoardEntries] : n \in 0 .. MaxEntries}

BoardSnapshots ==
    { [pieces |-> ps, currentTurn |-> "white", gameStatus |-> "playing", selectedPiecePlayer |-> OwnSession, selectedRow |-> 6, selectedCol |-> 4] :
        ps \in BoardPieceLists }

InitBoard ==
    /\ room = TRUE
    /\ playerSessionId = OwnSession
    /\ playerColor = "white"
    /\ currentScene = TRUE
    /\ board = NewController.board
    /\ currentPlayer = NewController.currentPlayer
    /\ gameStatus = NewController.gameStatus
    /\ selectedPiece = NewController.selectedPiece
    /\ opponentSelectionHighlight = NoHighlight
    /\ roomState = NoState
    /\ sent = <<>>
    /\ lastCall = [op |-> "gameState"]
    /\ validMoves = <<>>
    /\ pieceSprites = NoSprites
    /\ highlightSquares = <<>>

NextBoard == \E state \in BoardSnapshots : OnStateChange(state)

SpecBoard == InitBoard /\ [][NextBoard]_vars

---------------------------------------------------------------------------
(* Properties of the intent operations.                                    *)

LastCallIs(op) == lastCall.op = op

\* the square the last selectPiece / makeMove was called on
CalledPiece == getPiece(board, lastCall.row, lastCall.col)

SentTypes == {sent[i].type : i \in DOMAIN sent}

\* C1: selectPiece(row, col) returns false and sends nothing whenever the
\* square is empty, or its piece is not of the player's color, or
\* canPlayerAct() is false.  (selectPiece changes no field, so the state after
\* the call shows what it was called in.)
C1_SelectFailsUnlessCanAct ==
    (LastCallIs("selectPiece")
        /\ (\/ CalledPiece = NoPiece
            \/ CalledPiece.color # playerColor
            \/ ~canPlayerAct(Controller, playerColor)))
    => (lastCall.result = FALSE /\ sent = <<>>)

\* C2: makeMove(toRow, toCol) returns false and sends nothing whenever
\* canPlayerAct() is false, even with a selection and a legal destination.
C2_MoveFailsUnlessCanAct ==
    (LastCallIs("makeMove") /\ ~canPlayerAct(Controller, playerColor))
    => (lastCall.result = FALSE /\ sent = <<>>)

\* the squares getValidMovesForSelected offers now
LegalDestinations == IF selectedPiece = NoPiece THEN {} ELSE Range(getValidMoves(selectedPiece, board))

\* C3: makeMove to a square that is not among the legal destinations of the
\* selected piece returns false and sends nothing; with no selection there
\* are no legal destinations, so every makeMove fails.
C3_MoveOutsideLegalDestinationsFails ==
    /\ (selectedPiece = NoPiece => getValidMovesForSelected(Controller) = <<>>)
    /\ (LastCallIs("makeMove") /\ Pos(lastCall.row, lastCall.col) \notin LegalDestinations)
       => (lastCall.result = FALSE /\ sent = <<>>)

\* a selection exists and makeMove was refused for a square it may not reach
C3_Witness ==
    /\ LastCallIs("makeMove")
    /\ selectedPiece # NoPiece
    /\ LegalDestinations # {}
    /\ Pos(lastCall.row, lastCall.col) \notin LegalDestinations
    /\ lastCall.result = FALSE

\* C4: a client whose role is spectator never sends "select", "move" or
\* "restart".
C4_SpectatorSendsNoIntent ==
    playerColor = "spectator" => SentTypes \cap {"select", "move", "restart"} = {}

\* a spectator holding a selection asked for one of its legal destinations
C4_Witness ==
    /\ playerColor = "spectator"
    /\ LastCallIs("makeMove")
    /\ Pos(lastCall.row, lastCall.col) \in LegalDestinations
    /\ sent = <<>>

\* C5: only updateFromServer changes the board, the turn, the status or the
\* local selection: every other step (selectPiece, deselectPiece, makeMove,
\* the pieceSelected / pieceDeselected / error / gameRestarted handlers, ...)
\* leaves the four unchanged.
C5_OnlyReconcileChangesController ==
    [][lastCall'.op # "updateFromServer" => UNCHANGED ctlVars]_vars

\* a select succeeded (and was sent) and there is still no local selection
C5_Witness ==
    /\ LastCallIs("selectPiece")
    /\ lastCall.result = TRUE
    /\ SentTypes = {"select"}
    /\ selectedPiece = NoPiece

---------------------------------------------------------------------------
(* Properties of updateFromServer.                                         *)

SnapshotDelivered == roomState # NoState

\* the square the latest snapshot names as selected
SnapshotSelectsOwn == roomState.selectedPiecePlayer = playerSessionId
SnapshotSquareOnBoard == roomState.selectedRow \in 0 .. Rows - 1 /\ roomState.selectedCol \in 0 .. Cols - 1
SnapshotSquare == <<roomState.selectedRow, roomState.selectedCol>>

\* C6: the local selection is present only if the latest snapshot names this
\* client's own session as the selecting one, and it is then the piece standing
\* on (selectedRow, selectedCol) of the current board; a snapshot that names
\* another session, or a square off the board or an empty one, leaves no
\* local selection.
C6_SelectionFollowsSnapshot ==
    /\ selectedPiece # NoPiece =>
          /\ SnapshotDelivered
          /\ SnapshotSelectsOwn
          /\ SnapshotSquareOnBoard
          /\ SnapshotSquare \in DOMAIN board
          /\ selectedPiece = board[SnapshotSquare]
          /\ <<selectedPiece.row, selectedPiece.col>> = SnapshotSquare
    /\ (SnapshotDelivered /\ (~SnapshotSelectsOwn \/ ~SnapshotSquareOnBoard \/ SnapshotSquare \notin DOMAIN board))
          => selectedPiece = NoPiece

\* a snapshot naming this session and an occupied square gave a selection
C6_Witness ==
    /\ LastCallIs("updateFromServer")
    /\ SnapshotSelectsOwn
    /\ selectedPiece # NoPiece
    /\ Cardinality(DOMAIN board) > 1

\* C7: updateFromServer is idempotent: applying the snapshot just applied
\* once more leaves the board, the turn, the status and the local selection
\* as they are.
C7_ReconcileIdempotent ==
    LastCallIs("updateFromServer") => updateFromServer(Controller, roomState, playerSessionId) = Controller

\* a snapshot with pieces and a selection of this session has been applied
C7_Witness ==
    /\ LastCallIs("updateFromServer")
    /\ board # EmptyBoard
    /\ selectedPiece # NoPiece

\* the entries of the latest snapshot that name a known kind and the cell
EntriesAt(cell) == {i \in DOMAIN roomState.pieces : roomState.pieces[i].type \in KnownTypes /\ <<roomState.pieces[i].row, roomState.pieces[i].col>> = cell}

SameAsEntry(piece, entry) ==
    /\ piece.type = entry.type
    /\ piece.color = entry.color
    /\ piece.row = entry.row
    /\ piece.col = entry.col
    /\ piece.hasMoved = entry.hasMoved

\* C8: once a snapshot has been delivered, whatever intent calls and events
\* came in between, the turn, the status and the board are those of the
\* latest snapshot alone: a cell holds a piece only if the latest snapshot
\* lists one there, and then the last one it lists.
C8_StateIsLatestSnapshot ==
    SnapshotDelivered =>
        /\ currentPlayer = roomState.currentTurn
        /\ gameStatus = roomState.gameStatus
        /\ DOMAIN board \subseteq Cells
        /\ \A cell \in Cells :
              IF EntriesAt(cell) = {} THEN cell \notin DOMAIN board
              ELSE /\ cell \in DOMAIN board
                   /\ \E i \in EntriesAt(cell) : (\A j \in EntriesAt(cell) : j <= i) /\ SameAsEntry(board[cell], roomState.pieces[i])

\* an intent call went out after a snapshot that lists fewer pieces than the
\* three the snapshots are drawn from
C8_Witness ==
    /\ SnapshotDelivered
    /\ LastCallIs("makeMove")
    /\ lastCall.result = TRUE
    /\ Cardinality(DOMAIN board) = 1

---------------------------------------------------------------------------
(* Properties of the rule table (under SpecMoves, where validMoves is what *)
(* getValidMoves gave for the selected piece on the current board).        *)

MovesComputed == LastCallIs("getValidMovesForSelected")

Destinations == Range(validMoves)

\* C9: for every kind, color, position and board, each destination lies on
\* the board: row in [0,8) and column in [0,10).
C9_DestinationsOnBoard ==
    \A m \in Destinations : m.row >= 0 /\ m.row < 8 /\ m.col >= 0 /\ m.col < 10

\* a piece in the last column, where a square 8x8 board would end two
\* columns earlier, is offered squares of columns 8 and 9 and has neighbours
\* off the board
C9_Witness ==
    /\ MovesComputed
    /\ selectedPiece.type = "knight"
    /\ selectedPiece.row = 7 /\ selectedPiece.col = 9
    /\ \E m \in Destinations : m.col = 8
    /\ Len(validMoves) = 2

Occupied(r, c) == <<r, c>> \in DOMAIN board
OnBoard(r, c) == r \in 0 .. 7 /\ c \in 0 .. 9
HoldsOpponentOf(piece, r, c) == Occupied(r, c) /\ board[<<r, c>>].color # piece.color

\* the pawn's destinations as the claim words them
PawnDestinations(pawn) ==
    LET ahead == IF pawn.color = "white" THEN pawn.row - 1 ELSE pawn.row + 1
        twoAhead == IF pawn.color = "white" THEN pawn.row - 2 ELSE pawn.row + 2
        home == IF pawn.color = "white" THEN 6 ELSE 1
    IN  (IF OnBoard(ahead, pawn.col) /\ ~Occupied(ahead, pawn.col) THEN {Pos(ahead, pawn.col)} ELSE {})
        \cup (IF pawn.row = home /\ ~Occupied(ahead, pawn.col) /\ ~Occupied(twoAhead, pawn.col) THEN {Pos(twoAhead, pawn.col)} ELSE {})
        \cup {Pos(ahead, c) : c \in {k \in {pawn.col - 1, pawn.col + 1} : OnBoard(ahead, k) /\ HoldsOpponentOf(pawn, ahead, k)}}

\* C10: a pawn's destinations are exactly the square one row forward iff it
\* is on the board and empty, the square two rows forward iff the pawn stands
\* on its home row and both squares ahead are empty (whatever its moved-flag),
\* and each forward diagonal square iff it holds an opposing piece; so a
\* home-row pawn with both squares ahead empty has exactly 2 non-capture
\* destinations, and each destination is listed once.
C10_PawnDestinations ==
    (MovesComputed /\ selectedPiece.type = "pawn") =>
        /\ Destinations = PawnDestinations(selectedPiece)
        /\ Len(validMoves) = Cardinality(Destinations)
        /\ LET ahead == IF selectedPiece.color = "white" THEN selectedPiece.row - 1 ELSE selectedPiece.row + 1
               twoAhead == IF selectedPiece.color = "white" THEN selectedPiece.row - 2 ELSE selectedPiece.row + 2
               home == IF selectedPiece.color = "white" THEN 6 ELSE 1
               pushes == {m \in Destinations : m.col = selectedPiece.col}
           IN  /\ (selectedPiece.row = home /\ ~Occupied(ahead, selectedPiece.col) /\ ~Occupied(twoAhead, selectedPiece.col)) => Cardinality(pushes) = 2
               /\ selectedPiece.row # home => Pos(twoAhead, selectedPiece.col) \notin Destinations
               /\ Occupied(ahead, selectedPiece.col) => pushes = {}

\* a pawn that has its moved-flag set stands on its home row, is offered the
\* two-square push, and captures an opposing piece on a diagonal
C10_Witness ==
    /\ MovesComputed
    /\ selectedPiece.type = "pawn"
    /\ selectedPiece.color = "black"
    /\ selectedPiece.hasMoved
    /\ selectedPiece.row = 1
    /\ Pos(3, selectedPiece.col) \in Destinations
    /\ Len(validMoves) = 3

\* the directions a sliding piece moves along, as <<rows, columns>> per step
Orthogonals == {<<0, 1>>, <<0, -1>>, <<1, 0>>, <<-1, 0>>}
Diagonals == {<<1, 1>>, <<1, -1>>, <<-1, 1>>, <<-1, -1>>}

\* the squares of one ray as the claim words them: the empty squares before
\* the first occupied one (or the edge), and that one iff it holds an
\* opposing piece
RaySquares(piece, d) ==
    LET square(i) == Pos(piece.row + d[1] * i, piece.col + d[2] * i)
        onRay == {i \in 1 .. Rows + Cols : OnBoard(square(i).row, square(i).col)}
        occupied == {i \in onRay : Occupied(square(i).row, square(i).col)}
        first == IF occupied = {} THEN Rows + Cols + 1 ELSE CHOOSE i \in occupied : \A j \in occupied : i <= j
    IN  {square(i) : i \in {j \in onRay : j < first}}
        \cup (IF occupied # {} /\ HoldsOpponentOf(piece, square(first).row, square(first).col) THEN {square(first)} ELSE {})

SlidingSquares(piece, dirs) == UNION {RaySquares(piece, d) : d \in dirs}

\* no other piece stands on the selected piece's row
RowOtherwiseEmpty == \A c \in 0 .. 9 : c # selectedPiece.col => ~Occupied(selectedPiece.row, c)

\* C11: for a rook (four orthogonal directions) and a bishop (four diagonal
\* directions) the destinations are, ray by ray, exactly the consecutive
\* empty squares up to the edge or the first occupied square, plus that
\* square iff it holds an opposing piece, and nothing beyond it; a rook at
\* column 0 of an otherwise empty row reaches all nine squares up to column
\* 9, and one at column 9 all nine back to column 0.
C11_RayDestinations ==
    /\ (MovesComputed /\ selectedPiece.type = "rook") =>
          /\ Destinations = SlidingSquares(selectedPiece, Orthogonals)
          /\ (RowOtherwiseEmpty /\ selectedPiece.col = 0) => {Pos(selectedPiece.row, c) : c \in 1 .. 9} \subseteq Destinations
          /\ (RowOtherwiseEmpty /\ selectedPiece.col = 9) => {Pos(selectedPiece.row, c) : c \in 0 .. 8} \subseteq Destinations
    /\ (MovesComputed /\ selectedPiece.type = "bishop") =>
          Destinations = SlidingSquares(selectedPiece, Diagonals)

\* a rook at column 0 reaches column 9 along its empty row, takes the
\* opposing piece next to it in its column and is offered nothing behind it
C11_Witness ==
    /\ MovesComputed
    /\ selectedPiece.type = "rook"
    /\ selectedPiece.col = 0
    /\ selectedPiece.row = 7
    /\ Pos(7, 9) \in Destinations
    /\ HoldsOpponentOf(selectedPiece, 6, 0)
    /\ Occupied(5, 0)
    /\ Pos(6, 0) \in Destinations
    /\ Pos(5, 0) \notin Destinations

\* the selected piece, were it of another kind
SelectedAs(type) == [selectedPiece EXCEPT !.type = type]

\* C12: for every position, color and board, the squares a queen may move
\* to are the union of those of a rook and of a bishop of the same color on
\* the same square of the same board.
C12_QueenIsRookAndBishop ==
    (MovesComputed /\ selectedPiece.type = "queen") =>
        /\ Destinations = Range(getValidMoves(SelectedAs("rook"), board)) \cup Range(getValidMoves(SelectedAs("bishop"), board))
        /\ Destinations = SlidingSquares(selectedPiece, Orthogonals \cup Diagonals)

\* a queen is offered a square along a row and an opposing piece on a diagonal
C12_Witness ==
    /\ MovesComputed
    /\ selectedPiece.type = "queen"
    /\ selectedPiece.color = "white"
    /\ selectedPiece.row = 4 /\ selectedPiece.col = 2
    /\ Pos(4, 9) \in Destinations
    /\ HoldsOpponentOf(selectedPiece, 1, 5)
    /\ Pos(1, 5) \in Destinations
    /\ Pos(0, 6) \notin Destinations

\* the on-board neighbours of the piece not held by its own color
NeighbourSquares(piece) ==
    {Pos(piece.row + dr, piece.col + dc) : <<dr, dc>> \in
        {d \in ({-1, 0, 1} \X {-1, 0, 1}) \ {<<0, 0>>} :
            /\ OnBoard(piece.row + d[1], piece.col + d[2])
            /\ ~(Occupied(piece.row + d[1], piece.col + d[2]) /\ ~HoldsOpponentOf(piece, piece.row + d[1], piece.col + d[2]))}}

\* C13: for every position, color and board, a king and a mann have the
\* same destination set: the on-board squares among the eight neighbours
\* that are not occupied by a piece of the mover's own color.
C13_KingAndMannAlike ==
    (MovesComputed /\ selectedPiece.type \in {"king", "mann"}) =>
        /\ Destinations = NeighbourSquares(selectedPiece)
        /\ Range(getValidMoves(SelectedAs("king"), board)) = Range(getValidMoves(SelectedAs("mann"), board))

\* a mann with an own piece ahead and an opposing piece diagonally ahead has
\* seven destinations
C13_Witness ==
    /\ MovesComputed
    /\ selectedPiece.type = "mann"
    /\ selectedPiece.row = 3 /\ selectedPiece.col = 3
    /\ selectedPiece.color = "black"
    /\ Occupied(4, 3) /\ ~HoldsOpponentOf(selectedPiece, 4, 3)
    /\ HoldsOpponentOf(selectedPiece, 4, 4)
    /\ Cardinality(Destinations) = 7

\* the on-board squares a knight's jump away not held by its own color
KnightSquares(piece) ==
    {Pos(piece.row + dr, piece.col + dc) : <<dr, dc>> \in
        {d \in ({-2, -1, 1, 2} \X {-2, -1, 1, 2}) :
            /\ d[1] * d[1] + d[2] * d[2] = 5
            /\ OnBoard(piece.row + d[1], piece.col + d[2])
            /\ ~(Occupied(piece.row + d[1], piece.col + d[2]) /\ ~HoldsOpponentOf(piece, piece.row + d[1], piece.col + d[2]))}}

\* C14: for every position, color and board, a knight's destinations are
\* exactly the squares at the eight (+-1,+-2)/(+-2,+-1) offsets that are on
\* the 8x10 board and not occupied by a piece of its own color; pieces
\* standing in between never block it.
C14_KnightDestinations ==
    (MovesComputed /\ selectedPiece.type = "knight") => Destinations = KnightSquares(selectedPiece)

\* a knight with a piece right ahead of it jumps over it onto an opposing piece
C14_Witness ==
    /\ MovesComputed
    /\ selectedPiece.type = "knight"
    /\ selectedPiece.color = "white"
    /\ selectedPiece.row = 4 /\ selectedPiece.col = 4
    /\ Occupied(3, 4)
    /\ HoldsOpponentOf(selectedPiece, 2, 5)
    /\ Pos(2, 5) \in Destinations
    /\ Cardinality(Destinations) = 8

---------------------------------------------------------------------------
(* Properties of the board (under SpecBoard).                              *)

\* listPieces(), as the presentation reads it
ListedPieces == getAllPieces(board)

\* C15: after any sequence of snapshots, also ones that list two pieces on
\* one cell or a piece off the board, every cell holds at most one piece,
\* and every piece getPiece(r, c) or getAllPieces() returns carries the row
\* and column of the cell it stands on (so no two listed pieces share a
\* cell, and off the board getPiece returns nothing).
C15_OnePiecePerCellAtItsCell ==
    /\ \A r \in -1 .. Rows, c \in -1 .. Cols :
          getPiece(board, r, c) # NoPiece => (OnBoard(r, c) /\ getPiece(board, r, c).row = r /\ getPiece(board, r, c).col = c)
    /\ \A i \in DOMAIN ListedPieces :
          /\ ListedPieces[i] # NoPiece
          /\ getPiece(board, ListedPieces[i].row, ListedPieces[i].col) = ListedPieces[i]
          /\ \A j \in DOMAIN ListedPieces : (ListedPieces[j].row = ListedPieces[i].row /\ ListedPieces[j].col = ListedPieces[i].col) => j = i
    /\ Len(ListedPieces) = Cardinality({cell \in Cells : getPiece(board, cell[1], cell[2]) # NoPiece})

\* the latest snapshot listed two known pieces on one cell and one off the
\* board: the later of the two stands alone
C15_Witness ==
    /\ LastCallIs("updateFromServer")
    /\ \E i, j \in DOMAIN roomState.pieces :
          /\ i < j
          /\ roomState.pieces[i].type = "pawn" /\ roomState.pieces[j].type = "queen"
          /\ roomState.pieces[i].row = roomState.pieces[j].row /\ roomState.pieces[i].col = roomState.pieces[j].col
    /\ \E i \in DOMAIN roomState.pieces : roomState.pieces[i].row = 8
    /\ Len(ListedPieces) = 1
    /\ ListedPieces[1].type = "queen"

SnapshotEntries == roomState.pieces

KnownEntries == {i \in DOMAIN SnapshotEntries : SnapshotEntries[i].type \in KnownTypes}

\* the known-kind entries that name a cell of the board and are the last to name it
PlacedEntries ==
    {i \in KnownEntries :
        /\ OnBoard(SnapshotEntries[i].row, SnapshotEntries[i].col)
        /\ \A j \in KnownEntries : (SnapshotEntries[j].row = SnapshotEntries[i].row /\ SnapshotEntries[j].col = SnapshotEntries[i].col) => j <= i}

IsKnownEntry(entry) == entry.type \in KnownTypes

\* C16 as stated: after updateFromServerState the board holds exactly one
\* piece for each snapshot entry of a known kind, with that entry's kind,
\* color, row, column and moved-flag.
C16_OnePiecePerKnownEntry ==
    LastCallIs("updateFromServer") =>
        /\ \A i \in KnownEntries : \E k \in DOMAIN ListedPieces : SameAsEntry(ListedPieces[k], SnapshotEntries[i])
        /\ Len(ListedPieces) = Cardinality(KnownEntries)

\* C16, amended: updateFromServerState clears every cell and then places the
\* entries in order: afterwards the board holds exactly one piece for each
\* entry of a known kind that names a cell of the board and is the last
\* known-kind entry to name it, with that entry's kind, color, row, column
\* and moved-flag; entries of an unknown kind are skipped and the board is
\* the one the list without them gives.
C16_OnePiecePerPlacedEntry ==
    LastCallIs("updateFromServer") =>
        /\ \A i \in PlacedEntries : \E k \in DOMAIN ListedPieces : SameAsEntry(ListedPieces[k], SnapshotEntries[i])
        /\ Len(ListedPieces) = Cardinality(PlacedEntries)
        /\ board = updateFromServerState(board, SelectSeq(SnapshotEntries, IsKnownEntry))

\* an entry of an unknown kind came after a known one on the same cell, and
\* the known one stands there, next to the piece of another entry
C16_Witness ==
    /\ LastCallIs("updateFromServer")
    /\ Len(SnapshotEntries) = 3
    /\ SnapshotEntries[1].type = "mann"
    /\ SnapshotEntries[2].type = "pawn"
    /\ SnapshotEntries[3].type = "amazon"
    /\ Len(ListedPieces) = 2
    /\ getPiece(board, 6, 4).type = "pawn"
    /\ getPiece(board, 6, 4).hasMoved = FALSE

---------------------------------------------------------------------------
(* Properties of canPlayerAct, deselectPiece and the click handlers.       *)

IsClick == lastCall.op \in {"handlePieceClick", "handleSquareClick"}

\* C17: canPlayerAct() is true if and only if the role is white or black
\* (not spectator, not yet unassigned), the turn is the role's and the
\* status is "playing"; it is false before any role assignment or snapshot,
\* and a click handler goes on to a controller call only when all three hold.
C17_CanActIffOwnTurnWhilePlaying ==
    /\ canPlayerAct(Controller, playerColor) <=> (playerColor \in {"white", "black"} /\ currentPlayer = playerColor /\ gameStatus = "playing")
    /\ (playerColor = "unassigned" \/ roomState = NoState) => ~canPlayerAct(Controller, playerColor)
    /\ (IsClick /\ lastCall.call # "return") => (playerColor \in {"white", "black"} /\ currentPlayer = playerColor /\ gameStatus = "playing")

\* black, on its turn in a game being played, clicked one of its pieces and
\* the handler went on to select it
C17_Witness ==
    /\ LastCallIs("handlePieceClick")
    /\ lastCall.call = "selectPiece"
    /\ lastCall.result = TRUE
    /\ playerColor = "black"
    /\ canPlayerAct(Controller, playerColor)

\* C18: with a room, every deselectPiece() sends exactly one "deselect",
\* whatever the role, the turn, the status and the local selection (it does
\* not ask canPlayerAct); without a room it sends nothing.
C18_DeselectAlwaysSent ==
    LastCallIs("deselectPiece") => sent = (IF room THEN <<[type |-> "deselect"]>> ELSE <<>>)

\* a spectator with nothing selected, in a game that is not being played,
\* called deselectPiece and the message went out
C18_Witness ==
    /\ LastCallIs("deselectPiece")
    /\ room
    /\ playerColor = "spectator"
    /\ gameStatus = "waiting"
    /\ selectedPiece = NoPiece
    /\ sent = <<[type |-> "deselect"]>>

\* the cells whose sprite is tinted
TintedCells == {cell \in DOMAIN pieceSprites : pieceSprites[cell]}

\* C19: a piece is shown selected (its sprite tinted) only if the snapshot
\* reconciled last gives this session a selection on that square; a click
\* that only sends a "select" tints nothing.
C19_TintFollowsSnapshot ==
    /\ \A cell \in TintedCells : SnapshotDelivered /\ SnapshotSelectsOwn /\ SnapshotSquare = cell
    /\ (LastCallIs("handlePieceClick") /\ SentTypes = {"select"}) => TintedCells = {}

\* C20: every "select", "deselect" and "move" a click on a piece or on an
\* empty square sends is sent from a state where canPlayerAct() is true;
\* where it is false, a click sends nothing and changes neither the
\* controller's fields nor what is displayed.
C20_ClicksSendOnlyWhenCanAct ==
    [][(lastCall'.op \in {"handlePieceClick", "handleSquareClick"}) =>
          /\ sent' # <<>> => canPlayerAct(Controller, playerColor)
          /\ ~canPlayerAct(Controller, playerColor) => (sent' = <<>> /\ UNCHANGED <<ctlVars, uiVars, opponentSelectionHighlight>>)]_vars

\* a click on an empty square sent a move while the player could act
C20_Witness ==
    /\ LastCallIs("handleSquareClick")
    /\ SentTypes = {"move"}
    /\ canPlayerAct(Controller, playerColor)
    /\ selectedPiece # NoPiece

---------------------------------------------------------------------------
(* Properties of the moves sent.                                           *)

MovesSent == {sent[i] : i \in {k \in DOMAIN sent : sent[k].type = "move"}}

\* C21: every "move" sent is well-formed against the board it is sent from:
\* its from-square is the square of the local selection, which stands there
\* on the current board, and its to-square is on the board, is not the
\* from-square and holds no piece of the selected piece's color.  (makeMove
\* changes no field, so the state after the call is the one it sent from.)
C21_MovesSentAreWellFormed ==
    \A m \in MovesSent :
        /\ selectedPiece # NoPiece
        /\ m.fromRow = selectedPiece.row /\ m.fromCol = selectedPiece.col
        /\ getPiece(board, m.fromRow, m.fromCol) = selectedPiece
        /\ OnBoard(m.toRow, m.toCol)
        /\ <<m.toRow, m.toCol>> # <<m.fromRow, m.fromCol>>
        /\ ~(Occupied(m.toRow, m.toCol) /\ board[<<m.toRow, m.toCol>>].color = selectedPiece.color)

\* the selected pawn's move onto the opposing piece diagonally ahead went out
C21_Witness ==
    /\ LastCallIs("makeMove")
    /\ MovesSent = {[type |-> "move", fromRow |-> 6, fromCol |-> 4, toRow |-> 5, toCol |-> 3]}
    /\ selectedPiece.type = "pawn"
    /\ HoldsOpponentOf(selectedPiece, lastCall.row, lastCall.col)

====
